---- MODULE Spec2Model ----
(***************************************************************************)
(* Model of the batch pipeline of everything_batch.py: EverythingSearcher  *)
(* reads a list of filenames, searches each one through the external       *)
(* provider (es.exe) in a process pool, aggregates the found pairs and     *)
(* then copies, moves or deletes every found pair in a second pool.        *)
(* Around it: the SearchGUI form with its confirmations and its settings   *)
(* (GuiSpec), and the lookups of the configuration and language managers   *)
(* (LookupSpec).                                                           *)
(*                                                                         *)
(* Strings are sequences of one-character strings, so that strip, the      *)
(* path functions of ntpath and the regex search are computed character    *)
(* by character.  The empty sequence stands for a falsy Python string      *)
(* (None or "").                                                           *)
(***************************************************************************)
EXTENDS Integers, Sequences, FiniteSets, TLC

\* ------------------------------------------------------------------ bounds
\* Longest input (number of lines of the input text).
MaxLines == 2

\* How many seconds the clock can advance during a run.
MaxClock == 1

\* ------------------------------------------------------- character helpers
sep == "\\"

IsSpace(c) == c = " "

RECURSIVE lstrip(_)
lstrip(s) == IF s # <<>> /\ IsSpace(Head(s)) THEN lstrip(Tail(s)) ELSE s

RECURSIVE rstrip(_)
rstrip(s) ==
    IF s # <<>> /\ IsSpace(s[Len(s)]) THEN rstrip(SubSeq(s, 1, Len(s) - 1)) ELSE s

\* str.strip()
strip(s) == rstrip(lstrip(s))

\* [f(x) for x in s if x]   with f = strip, the idiom of read_input_file and
\* of search_single_file
RECURSIVE StrippedNonBlank(_)
StrippedNonBlank(ls) ==
    IF ls = <<>> THEN <<>>
    ELSE IF strip(Head(ls)) # <<>>
         THEN <<strip(Head(ls))>> \o StrippedNonBlank(Tail(ls))
         ELSE StrippedNonBlank(Tail(ls))

\* ------------------------------------------------------------------- regex
\* (variant: a validation that accepts every pattern)
re_compile_ok_accepting(pattern) == TRUE

\* The patterns of the model are written over literal characters, the
\* wildcard "." and the group opener "(".  A pattern with an unclosed "("
\* is what re.compile rejects with re.error.
re_compile_ok(pattern) == \A i \in 1..Len(pattern) : pattern[i] # "("

re_char_matches(pc_, c) == pc_ = "." \/ pc_ = c

\* the pattern matches s at offset off (0-based)
re_match_at(pattern, s, off) ==
    /\ off + Len(pattern) <= Len(s)
    /\ \A i \in 1..Len(pattern) : re_char_matches(pattern[i], s[off + i])

\* regex.search(path): a match anywhere in the string
re_search(pattern, s) == \E off \in 0..Len(s) : re_match_at(pattern, s, off)

\* ------------------------------------------------------------ ntpath model
\* os.path.splitdrive for drive-letter paths: <<drive, rest>>
splitdrive(p) ==
    IF Len(p) >= 2 /\ p[2] = ":"
    THEN <<SubSeq(p, 1, 2), SubSeq(p, 3, Len(p))>>
    ELSE <<<<>>, p>>

\* str.lstrip(os.sep)
RECURSIVE lstrip_sep(_)
lstrip_sep(s) == IF s # <<>> /\ Head(s) = sep THEN lstrip_sep(Tail(s)) ELSE s

\* os.path.join(a, b) of ntpath for two components
path_join(a, b) ==
    LET da == splitdrive(a)
        db == splitdrive(b)
    IN  IF db[1] # <<>> /\ db[1] # da[1] THEN b
        ELSE IF db[2] # <<>> /\ Head(db[2]) = sep THEN da[1] \o db[2]
        ELSE IF a = <<>> \/ a[Len(a)] = sep \/ a[Len(a)] = ":" THEN a \o db[2]
        ELSE a \o <<sep>> \o db[2]

\* index of the last separator of p, 0 when there is none
LastSep(p) ==
    LET S == {i \in 1..Len(p) : p[i] = sep}
    IN  IF S = {} THEN 0 ELSE CHOOSE i \in S : \A j \in S : j <= i

\* os.path.dirname
dirname(p) ==
    LET d == splitdrive(p)
        k == LastSep(d[2])
    IN  IF k = 0 THEN d[1]
        ELSE IF k = 1 THEN d[1] \o <<sep>>
        ELSE d[1] \o SubSeq(d[2], 1, k - 1)

\* the directories os.makedirs(d, exist_ok=True) leaves in existence
makedirs(d, ds) ==
    ds \cup {SubSeq(d, 1, k) : k \in {j \in 3..Len(d) : j = Len(d) \/ d[j + 1] = sep}}

\* ------------------------------------------------------ the environment
\* The destination roots a run can be given.
CopyRoot == <<"D", ":", sep, "o">>
MoveRoot == <<"E", ":", sep, "m">>

\* The log directory a run can be given.
LogRoot == <<"L", ":", sep, "l">>

\* Paths known to the provider's index.
PathAF  == <<"C", ":", sep, "a", sep, "f">>
PathABF == <<"C", ":", sep, "a", sep, "b", sep, "f", "x">>
PathG   == <<"C", ":", sep, "g">>

NameF == <<"f">>
NameG == <<"g">>

\* result.stdout.splitlines() of `es.exe -full-path-and-name <search_term>`
\* when the provider exits with code 0: the index knows two files for f
\* (its output has an empty line and a line with trailing blanks) and one
\* for g.
es_stdout(search_term) ==
    IF search_term = NameF THEN <<PathAF, <<>>, PathABF \o <<" ">>>>
    ELSE IF search_term = NameG THEN <<PathG>>
    ELSE <<>>

\* What one subprocess.run of the provider can do: exit 0, exit with
\* another code, or fail to start (an exception).
ProviderOutcomes == {"exit0", "nonzero", "exception"}

\* The files on disk when the run starts.  PathG is in the provider's index
\* but no longer on disk (a stale index entry), so every action on it fails.
InitialFiles == {PathAF, PathABF}
InitialDirs  == {<<"C", ":", sep>>, <<"C", ":", sep, "a">>,
                 <<"C", ":", sep, "a", sep, "b">>}

\* Lines of the input text.
LineUniverse == {NameF, NameG \o <<" ">>, <<" ">>}

\* Regex filters: none, a valid one, an invalid one.
RegexUniverse == {<<>>, <<"a", ".", "b">>, <<"(">>}

RECURSIVE SeqsUpTo(_, _)
SeqsUpTo(S, n) ==
    IF n = 0 THEN {<<>>}
    ELSE LET R == SeqsUpTo(S, n - 1)
         IN  R \cup {Append(r, x) : r \in {q \in R : Len(q) = n - 1}, x \in S}

\* ------------------------------------------------------------------- state
VARIABLES
    input_text,              \* self.input_text / the lines of self.input_file
    copy_path,               \* self.copy_path, <<>> when not set
    move_path,               \* self.move_path, <<>> when not set
    match_folder_structure,  \* self.match_folder_structure
    delete_mode,             \* self.delete_mode
    regex_filter,            \* self.regex_filter, <<>> when not set
    lang,                    \* TRUE iff a language manager was passed
    log_path,                \* self.log_path, <<>> when not set
    pc,                      \* where process_files is
    filenames,               \* local filenames of process_files
    search_futures,          \* the futures of the search pool
    process_futures,         \* the futures of the action pool
    found_files,             \* self.found_files
    processed_files,         \* self.processed_files
    failed_files,            \* self.failed_files
    search_processed,        \* local counter processed_files of the search loop
    found_count,             \* local found_count
    processed_count,         \* local processed_count of the action loop
    progress,                \* calls made to the progress callback
    log_messages,            \* messages passed to self.log by process_files
    provider_calls,          \* how often es.exe was run, per search unit
    files,                   \* the files on disk
    dirs,                    \* the directories on disk
    now,                     \* datetime.now(), in whole seconds
    log_files,               \* the lines of log_<timestamp>.txt, per timestamp
    form,                    \* the Tk variables of the SearchGUI form
    config,                  \* the options of config-everything.ini on disk
    last_call                \* the last GUI or lookup call and its outcome

\* what a run of process_files never changes: the searcher's configuration
\* and the state of the GUI around it
cfgvars == <<input_text, copy_path, move_path, match_folder_structure,
             delete_mode, regex_filter, lang, log_path, form, config, last_call>>

vars == <<input_text, copy_path, move_path, match_folder_structure,
          delete_mode, regex_filter, lang, log_path, pc, filenames,
          search_futures, process_futures, found_files, processed_files,
          failed_files, search_processed, found_count, processed_count,
          progress, log_messages, provider_calls, files, dirs, now, log_files,
          form, config, last_call>>

\* ------------------------------------------------- search_single_file
\* (variant: the regex filter is not applied to the provider's lines)
search_single_file_unfiltered(filename, regex_pattern, outcome) ==
    IF outcome # "exit0" THEN <<>>
    ELSE LET paths == StrippedNonBlank(es_stdout(filename))
         IN  [k \in 1..Len(paths) |-> <<filename, paths[k]>>]

\* (variant: the exit code of the provider is not looked at)
search_single_file_any_exit(filename, regex_pattern, outcome) ==
    IF outcome = "exception" THEN <<>>
    ELSE LET paths == StrippedNonBlank(es_stdout(filename))
             kept  == IF regex_pattern # <<>>
                      THEN SelectSeq(paths, LAMBDA path : re_search(regex_pattern, path))
                      ELSE paths
         IN  [k \in 1..Len(kept) |-> <<filename, kept[k]>>]

\* The list search_single_file(filename, regex_pattern) returns when the
\* provider behaves as `outcome`.
search_single_file(filename, regex_pattern, outcome) ==
    IF outcome = "exception" THEN <<>>
    ELSE IF outcome # "exit0" THEN <<>>
    ELSE LET paths == StrippedNonBlank(es_stdout(filename))
             kept  == IF regex_pattern # <<>>
                      THEN SelectSeq(paths, LAMBDA path : re_search(regex_pattern, path))
                      ELSE paths
         IN  IF regex_pattern # <<>> /\ ~re_compile_ok(regex_pattern) THEN <<>>
             ELSE [k \in 1..Len(kept) |-> <<filename, kept[k]>>]

RECURSIVE Distinct(_)
Distinct(ls) ==
    IF ls = <<>> THEN <<>>
    ELSE LET front == Distinct(SubSeq(ls, 1, Len(ls) - 1))
             last  == ls[Len(ls)]
         IN  IF \E k \in 1..Len(front) : front[k] = last THEN front
             ELSE Append(front, last)

\* (variant: repeated filenames are dropped)
read_input_file_distinct(text) == Distinct(StrippedNonBlank(text))

\* -------------------------------------------------------- read_input_file
read_input_file(text) == StrippedNonBlank(text)

\* ------------------------------------------------------------ process_file
\* The state a worker threads through the filesystem calls of process_file:
\* the files and directories on disk, the calls made so far, and whether a
\* call has raised (after which the remaining calls are skipped).
FsStart(fl, ds) == [files |-> fl, dirs |-> ds, ops |-> <<>>, raised |-> FALSE]

FsOp(name, src, dst, ok) == [op |-> name, src |-> src, dst |-> dst, ok |-> ok]

\* os.remove(src)
os_remove(st, src) ==
    IF st.raised THEN st
    ELSE IF src \in st.files
         THEN [st EXCEPT !.files = @ \ {src},
                         !.ops = Append(@, FsOp("remove", src, <<>>, TRUE))]
         ELSE [st EXCEPT !.raised = TRUE,
                         !.ops = Append(@, FsOp("remove", src, <<>>, FALSE))]

\* os.makedirs(d, exist_ok=True)
os_makedirs(st, d) ==
    IF st.raised THEN st
    ELSE [st EXCEPT !.dirs = makedirs(d, @),
                    !.ops = Append(@, FsOp("makedirs", <<>>, d, TRUE))]

\* shutil.copy2(src, dst): needs the source file and the destination folder
shutil_copy2(st, src, dst) ==
    IF st.raised THEN st
    ELSE IF src \in st.files /\ dirname(dst) \in st.dirs
         THEN [st EXCEPT !.files = @ \cup {dst},
                         !.ops = Append(@, FsOp("copy2", src, dst, TRUE))]
         ELSE [st EXCEPT !.raised = TRUE,
                         !.ops = Append(@, FsOp("copy2", src, dst, FALSE))]

\* shutil.move(src, dst)
shutil_move(st, src, dst) ==
    IF st.raised THEN st
    ELSE IF src \in st.files /\ dirname(dst) \in st.dirs
         THEN [st EXCEPT !.files = (@ \ {src}) \cup {dst},
                         !.ops = Append(@, FsOp("move", src, dst, TRUE))]
         ELSE [st EXCEPT !.raised = TRUE,
                         !.ops = Append(@, FsOp("move", src, dst, FALSE))]

\* (variant: the leading separator is kept)
rel_path_rooted(source_path) == splitdrive(source_path)[2]

\* rel_path = os.path.splitdrive(source_path)[1].lstrip(os.sep)
rel_path(source_path) == lstrip_sep(splitdrive(source_path)[2])

\* the destination with structure preservation
structured_dest(root, source_path) == path_join(root, rel_path(source_path))

\* os.path.basename
basename(p) == LET r == splitdrive(p)[2] IN SubSeq(r, LastSep(r) + 1, Len(r))

\* (variant: the flat destination takes the name of the found file)
flat_dest_basename(root, filename, source_path) ==
    path_join(root, basename(source_path))

\* the destination without structure preservation
flat_dest(root, filename, source_path) == path_join(root, filename)

\* one of the two blocks `if self.copy_path:` / `if self.move_path:`
transfer(st, root, structure, filename, source_path, is_move) ==
    LET dest == IF structure THEN structured_dest(root, source_path)
                ELSE flat_dest(root, filename, source_path)
        st1  == IF structure THEN os_makedirs(st, dirname(dest)) ELSE st
    IN  IF is_move THEN shutil_move(st1, source_path, dest)
        ELSE shutil_copy2(st1, source_path, dest)

\* (variant: the copy block runs before delete mode is looked at)
process_file_copy_before_delete(file_info, del, cp, mv, structure, fl, ds) ==
    LET filename    == file_info[1]
        source_path == file_info[2]
        st0 == FsStart(fl, ds)
        c   == IF cp # <<>>
               THEN transfer(st0, cp, structure, filename, source_path, FALSE)
               ELSE st0
        st  == IF del THEN os_remove(c, source_path)
               ELSE IF mv # <<>>
                    THEN transfer(c, mv, structure, filename, source_path, TRUE)
                    ELSE c
    IN  [ret |-> ~st.raised, files |-> st.files, dirs |-> st.dirs, ops |-> st.ops]

\* (variant: the move block comes before the copy block)
process_file_move_before_copy(file_info, del, cp, mv, structure, fl, ds) ==
    LET filename    == file_info[1]
        source_path == file_info[2]
        st0 == FsStart(fl, ds)
        st  == IF del THEN os_remove(st0, source_path)
               ELSE LET c == IF mv # <<>>
                             THEN transfer(st0, mv, structure, filename, source_path, TRUE)
                             ELSE st0
                    IN  IF cp # <<>>
                        THEN transfer(c, cp, structure, filename, source_path, FALSE)
                        ELSE c
    IN  [ret |-> ~st.raised, files |-> st.files, dirs |-> st.dirs, ops |-> st.ops]

\* (variant: copy and move each in a try block of their own)
process_file_independent(file_info, del, cp, mv, structure, fl, ds) ==
    LET filename    == file_info[1]
        source_path == file_info[2]
        st0 == FsStart(fl, ds)
        c   == IF cp # <<>>
               THEN transfer(st0, cp, structure, filename, source_path, FALSE)
               ELSE st0
        mo  == IF mv # <<>>
               THEN transfer([c EXCEPT !.raised = FALSE], mv, structure,
                             filename, source_path, TRUE)
               ELSE c
        st  == IF del THEN os_remove(st0, source_path)
               ELSE [mo EXCEPT !.raised = c.raised \/ mo.raised]
    IN  [ret |-> ~st.raised, files |-> st.files, dirs |-> st.dirs, ops |-> st.ops]

\* process_file(file_info) run on the disk state (fl, ds) under the given
\* configuration: the return value, the disk afterwards and the calls made.
process_file(file_info, del, cp, mv, structure, fl, ds) ==
    LET filename    == file_info[1]
        source_path == file_info[2]
        st0 == FsStart(fl, ds)
        st  == IF del THEN os_remove(st0, source_path)
               ELSE LET c == IF cp # <<>>
                             THEN transfer(st0, cp, structure, filename, source_path, FALSE)
                             ELSE st0
                    IN  IF mv # <<>>
                        THEN transfer(c, mv, structure, filename, source_path, TRUE)
                        ELSE c
    IN  [ret |-> ~st.raised, files |-> st.files, dirs |-> st.dirs, ops |-> st.ops]

\* ----------------------------------------------------------- log messages
Msg(key, arg) == [key |-> key, arg |-> arg]

RECURSIVE MsgEach(_, _)
MsgEach(key, args) ==
    IF args = <<>> THEN <<>>
    ELSE <<Msg(key, Head(args))>> \o MsgEach(key, Tail(args))

\* the second components of a list of pairs
Paths(pairs) == [k \in 1..Len(pairs) |-> pairs[k][2]]

\* The file part of self.log(message) for a list of messages logged at
\* time t: each one is appended to log_<t>.txt under the log directory,
\* the name being computed from the clock at every call.
write_log(lf, path, t, msgs) ==
    IF path = <<>> THEN lf ELSE [lf EXCEPT ![t] = @ \o msgs]

\* the messages process_files logs in the step, written to the log file
LogWritten ==
    log_files' = write_log(log_files, log_path, now,
                           SubSeq(log_messages', Len(log_messages) + 1,
                                  Len(log_messages')))

\* (variant: the failed count is logged also when nothing failed)
summary_messages_always_failed(total_files, n_found, processed, failed) ==
    <<Msg("summary", 0),
      Msg("total_processed", total_files),
      Msg("total_found", n_found),
      Msg("success_processed", Len(processed)),
      Msg("failed_operations", Len(failed))>>

\* the lines logged from "Output summary" on
summary_messages(total_files, n_found, processed, failed) ==
    <<Msg("summary", 0),
      Msg("total_processed", total_files),
      Msg("total_found", n_found),
      Msg("success_processed", Len(processed))>>
    \o (IF failed # <<>> THEN <<Msg("failed_operations", Len(failed))>> ELSE <<>>)

\* the lines logged from `actions = []` on: the list of the actions the
\* summary names, each with the count it is given (none for "logged"),
\* logged as one "actions taken" line unless the list is empty
actions_taken(lp, cp, mv, del, processed) ==
    LET actions ==
            (IF lp # <<>> THEN <<<<"logged", 0>>>> ELSE <<>>)
         \o (IF cp # <<>> THEN <<<<"copied", Len(processed)>>>> ELSE <<>>)
         \o (IF mv # <<>> THEN <<<<"moved", Len(processed)>>>> ELSE <<>>)
         \o (IF del THEN <<<<"deleted", Len(processed)>>>> ELSE <<>>)
    IN  IF actions # <<>> THEN <<Msg("actions_taken", actions)>> ELSE <<>>

\* ------------------------------------------------------------------- futures
Pending(n) == [k \in 1..n |-> [state |-> "pending"]]

\* (variant: the loop over as_completed is left after the first unit)
AllCollected_first(fs) == \E k \in 1..Len(fs) : fs[k].state = "collected"

\* the loop over as_completed has yielded every unit of the pool
AllCollected(fs) == \A k \in 1..Len(fs) : fs[k].state = "collected"

\* (variant: the callback is given the count before the increment)
update_progress_stale(calls, phase, current, total) ==
    Append(calls, <<phase, current - 1, total>>)

\* self.update_progress(phase, current, total): one call of the progress
\* callback with these three values
update_progress(calls, phase, current, total) ==
    Append(calls, <<phase, current, total>>)

\* (variant: the results of a unit are put in front of the list)
extend_front(found, results) == results \o found

\* self.found_files.extend(results)
extend(found, results) == found \o results

\* ------------------------------------------------- ConfigManagerEverything
\* A ConfigParser's content is a function from <<section, option>> to the
\* stored (raw) value.
TrueStr  == <<"T", "r", "u", "e">>
FalseStr == <<"F", "a", "l", "s", "e">>
English  == <<"E", "n", "g", "l", "i", "s", "h">>

\* the six options the program knows
SettingsKeys ==
    {<<"Interface", "language">>, <<"Search", "regex_filter">>,
     <<"Output", "enable_logging">>, <<"Output", "match_folder_structure">>,
     <<"Paths", "default_copy_folder">>, <<"Paths", "default_move_folder">>}

\* the default values ConfigManagerEverything.__init__ sets
Defaults ==
    [k \in SettingsKeys |->
        CASE k = <<"Interface", "language">> -> English
          [] k = <<"Output", "enable_logging">> -> FalseStr
          [] k = <<"Output", "match_folder_structure">> -> TrueStr
          [] OTHER -> <<>>]

\* no config file on disk
NoFile == [k \in {} |-> <<>>]

\* ConfigManagerEverything.__init__: the defaults, overridden by the options
\* of the file (read with surrounding whitespace stripped)
config_read(file) ==
    [k \in SettingsKeys \cup DOMAIN file |->
        IF k \in DOMAIN file THEN strip(file[k]) ELSE Defaults[k]]

\* BasicInterpolation.before_get on a raw value: "%%" stands for "%", and a
\* "%" followed by anything else raises.  (References %(name)s are not
\* modelled: no value of the model has "(" after "%".)
RECURSIVE interpolate(_)
interpolate(v) ==
    IF v = <<>> THEN [raised |-> FALSE, value |-> <<>>]
    ELSE IF Head(v) # "%"
         THEN LET r == interpolate(Tail(v))
              IN  [raised |-> r.raised, value |-> <<Head(v)>> \o r.value]
    ELSE IF Len(v) >= 2 /\ v[2] = "%"
         THEN LET r == interpolate(SubSeq(v, 3, Len(v)))
              IN  [raised |-> r.raised, value |-> <<"%">> \o r.value]
    ELSE [raised |-> TRUE, value |-> <<>>]

\* BasicInterpolation.before_set: once the pairs "%%" are taken out, a "%"
\* is left in the value (set then raises ValueError)
RECURSIVE invalid_interpolation_syntax(_)
invalid_interpolation_syntax(v) ==
    IF v = <<>> THEN FALSE
    ELSE IF Head(v) # "%" THEN invalid_interpolation_syntax(Tail(v))
    ELSE IF Len(v) >= 2 /\ v[2] = "%"
         THEN invalid_interpolation_syntax(SubSeq(v, 3, Len(v)))
    ELSE TRUE

\* ConfigManagerEverything.get: the default when the section or the option
\* is missing, else ConfigParser.get, which interpolates the raw value
get(c, section, key, default) ==
    IF <<section, key>> \notin DOMAIN c
    THEN [raised |-> FALSE, value |-> default]
    ELSE interpolate(c[<<section, key>>])

\* str.lower on the letters the model uses
lower(s) ==
    [i \in 1..Len(s) |-> CASE s[i] = "T" -> "t" [] s[i] = "F" -> "f" [] OTHER -> s[i]]

\* ConfigParser.BOOLEAN_STATES
TrueWords  == {<<"1">>, <<"y", "e", "s">>, <<"t", "r", "u", "e">>, <<"o", "n">>}
FalseWords == {<<"0">>, <<"n", "o">>, <<"f", "a", "l", "s", "e">>, <<"o", "f", "f">>}

\* ConfigManagerEverything.get_bool: the default when the section or the
\* option is missing, else ConfigParser.getboolean, which raises ValueError
\* on a value that is not a boolean word
get_bool(c, section, key, default) ==
    IF <<section, key>> \notin DOMAIN c
    THEN [raised |-> FALSE, value |-> default]
    ELSE LET r == interpolate(c[<<section, key>>])
         IN  IF r.raised THEN [raised |-> TRUE, value |-> default]
             ELSE IF lower(r.value) \in TrueWords THEN [raised |-> FALSE, value |-> TRUE]
             ELSE IF lower(r.value) \in FalseWords THEN [raised |-> FALSE, value |-> FALSE]
             ELSE [raised |-> TRUE, value |-> default]

\* str(value) of a bool
str_bool(b) == IF b THEN TrueStr ELSE FalseStr

\* ConfigManagerEverything.set with a string value (str(value) is the value
\* itself): the section is added when missing and the option is stored,
\* unless the interpolation syntax of the value is not valid
set(c, section, key, value) ==
    IF invalid_interpolation_syntax(value)
    THEN [raised |-> TRUE, config |-> c]
    ELSE [raised |-> FALSE,
          config |-> [k \in DOMAIN c \cup {<<section, key>>} |->
                         IF k = <<section, key>> THEN value ELSE c[k]]]

\* a call of set after others, skipped when one of them has raised
then_set(st, section, key, value) ==
    IF st.raised THEN st ELSE set(st.config, section, key, value)

\* ------------------------------------------------------------ SearchGUI form
\* the placeholder the input box shows (input.default_text), one line
default_text == <<<<"d">>>>

\* the form before a window exists
NoForm ==
    [language |-> English, input_text |-> <<>>, copy_path |-> <<>>,
     move_path |-> <<>>, log_enabled |-> FALSE, match_folder_structure |-> TRUE,
     delete_mode |-> FALSE, regex_filter |-> <<>>]

\* setup_gui: the Tk variables as they are created
setup_gui(c) ==
    [language |-> English, input_text |-> default_text,
     copy_path |-> get(c, "Paths", "default_copy_folder", <<>>).value,
     move_path |-> get(c, "Paths", "default_move_folder", <<>>).value,
     log_enabled |-> FALSE, match_folder_structure |-> TRUE,
     delete_mode |-> FALSE, regex_filter |-> <<>>]

\* _load_settings: the form after the settings are loaded, or raised when
\* a lookup raised (the window is then never shown)
load_settings(c, f) ==
    LET language  == get(c, "Interface", "language", English)
        regex     == get(c, "Search", "regex_filter", <<>>)
        logging   == get_bool(c, "Output", "enable_logging", FALSE)
        structure == get_bool(c, "Output", "match_folder_structure", TRUE)
        copy      == get(c, "Paths", "default_copy_folder", <<>>)
        move      == get(c, "Paths", "default_move_folder", <<>>)
    IN  [raised |-> \/ language.raised \/ regex.raised \/ logging.raised
                    \/ structure.raised \/ copy.raised \/ move.raised,
         form |-> [language |-> IF language.value = English THEN language.value
                                ELSE f.language,
                   input_text |-> f.input_text,
                   copy_path |-> copy.value,
                   move_path |-> move.value,
                   log_enabled |-> logging.value,
                   match_folder_structure |-> structure.value,
                   delete_mode |-> FALSE,
                   regex_filter |-> regex.value]]

\* (variant: the delete check box is saved with the other output settings)
on_closing_saving_delete(c, f) ==
    LET s1 == set(c, "Interface", "language", f.language)
        s2 == then_set(s1, "Search", "regex_filter", f.regex_filter)
        s3 == then_set(s2, "Output", "enable_logging", str_bool(f.log_enabled))
        s4 == then_set(s3, "Output", "match_folder_structure",
                       str_bool(f.match_folder_structure))
        s5 == then_set(s4, "Output", "delete_mode", str_bool(f.delete_mode))
        s6 == then_set(s5, "Paths", "default_copy_folder", f.copy_path)
    IN  then_set(s6, "Paths", "default_move_folder", f.move_path)

\* _on_closing up to save_config: the ConfigParser after the six calls of
\* set, or raised when one of them raised
on_closing(c, f) ==
    LET s1 == set(c, "Interface", "language", f.language)
        s2 == then_set(s1, "Search", "regex_filter", f.regex_filter)
        s3 == then_set(s2, "Output", "enable_logging", str_bool(f.log_enabled))
        s4 == then_set(s3, "Output", "match_folder_structure",
                       str_bool(f.match_folder_structure))
        s5 == then_set(s4, "Paths", "default_copy_folder", f.copy_path)
    IN  then_set(s5, "Paths", "default_move_folder", f.move_path)

\* the call record of a state in which no call was made
NoCall == [op |-> "none"]

\* ---------------------------------------------------------------------- Init
\* The state after EverythingSearcher.__init__, whatever the configuration:
\* the result lists are empty and the log and destination folders exist.
Fresh ==
    /\ pc = "start"
    /\ filenames = <<>>
    /\ search_futures = <<>>
    /\ process_futures = <<>>
    /\ found_files = <<>>
    /\ processed_files = <<>>
    /\ failed_files = <<>>
    /\ search_processed = 0
    /\ found_count = 0
    /\ processed_count = 0
    /\ progress = <<>>
    /\ log_messages = <<>>
    /\ provider_calls = <<>>
    /\ files = InitialFiles
    /\ dirs = LET d0 == IF log_path # <<>> THEN makedirs(log_path, InitialDirs)
                        ELSE InitialDirs
                 d1 == IF copy_path # <<>> THEN makedirs(copy_path, d0) ELSE d0
             IN  IF move_path # <<>> THEN makedirs(move_path, d1) ELSE d1
    /\ now = 0
    /\ log_files = [t \in 0..MaxClock |-> <<>>]
    /\ form = NoForm
    /\ config = NoFile
    /\ last_call = NoCall

\* Runs without a log directory, in every other configuration.
Init ==
    /\ input_text \in SeqsUpTo(LineUniverse, MaxLines)
    /\ copy_path \in {<<>>, CopyRoot}
    /\ move_path \in {<<>>, MoveRoot}
    /\ match_folder_structure \in BOOLEAN
    /\ delete_mode \in BOOLEAN
    /\ regex_filter \in RegexUniverse
    /\ lang \in BOOLEAN
    /\ log_path = <<>>
    /\ Fresh

\* Runs with a log directory: copy runs with structure preservation and no
\* regex filter.
LogInit ==
    /\ input_text \in SeqsUpTo(LineUniverse, MaxLines)
    /\ copy_path = CopyRoot
    /\ move_path = <<>>
    /\ match_folder_structure = TRUE
    /\ delete_mode = FALSE
    /\ regex_filter = <<>>
    /\ lang = TRUE
    /\ log_path = LogRoot
    /\ Fresh

\* ------------------------------------------------------------- process_files
\* process_files from its first line to the submission of the search units
\* (or to an early return).  Without a language manager the first
\* self.lang.get_string raises AttributeError.
Start ==
    /\ pc = "start"
    /\ LET names == read_input_file(input_text)
       IN  /\ filenames' = names
           /\ IF ~lang
              THEN /\ pc' = "raised"
                   /\ UNCHANGED <<log_messages, search_futures, provider_calls>>
              ELSE IF names = <<>>
              THEN /\ pc' = "returned"
                   /\ log_messages' = <<Msg("no_files", 0)>>
                   /\ UNCHANGED <<search_futures, provider_calls>>
              ELSE LET intro == <<Msg("processing", Len(names)), Msg("searching", 0)>>
                                \o MsgEach("item", names)
                   IN  IF regex_filter # <<>> /\ ~re_compile_ok(regex_filter)
                       THEN /\ pc' = "returned"
                            /\ log_messages' = Append(intro, Msg("invalid_regex", 0))
                            /\ UNCHANGED <<search_futures, provider_calls>>
                       ELSE /\ pc' = "search"
                            /\ log_messages' = intro
                            /\ search_futures' = Pending(Len(names))
                            /\ provider_calls' = [k \in 1..Len(names) |-> 0]
    /\ LogWritten
    /\ UNCHANGED <<cfgvars, process_futures, found_files, processed_files,
                   failed_files, search_processed, found_count, processed_count,
                   progress, files, dirs, now>>

\* A worker of the search pool runs search_single_file for unit i.
SearchWorker(i) ==
    /\ pc = "search"
    /\ search_futures[i].state = "pending"
    /\ \E outcome \in ProviderOutcomes :
          search_futures' = [search_futures EXCEPT ![i] =
              [state |-> "done", outcome |-> outcome,
               result |-> search_single_file(filenames[i], regex_filter, outcome)]]
    /\ provider_calls' = [provider_calls EXCEPT ![i] = @ + 1]
    /\ UNCHANGED <<cfgvars, pc, filenames, process_futures, found_files,
                   processed_files, failed_files, search_processed, found_count,
                   processed_count, progress, log_messages, files, dirs, now,
                   log_files>>

\* What process_files does between the end of the search loop and the next
\* point where it waits: the "found files" listing, then either the early
\* return, the submission of the action units, or the summary.
AfterSearch(found, n_found, log) ==
    IF found = <<>>
    THEN /\ log_messages' = Append(log, Msg("no_matches", 0))
         /\ pc' = "returned"
         /\ UNCHANGED process_futures
    ELSE LET listed == Append(log, Msg("found_files", 0)) \o MsgEach("path", Paths(found))
         IN  IF delete_mode \/ copy_path # <<>> \/ move_path # <<>>
             THEN /\ log_messages' = listed
                  /\ pc' = "action"
                  /\ process_futures' = Pending(Len(found))
             ELSE /\ log_messages' = listed \o
                         summary_messages(Len(filenames), n_found,
                                          processed_files, failed_files) \o
                         actions_taken(log_path, copy_path, move_path,
                                       delete_mode, processed_files)
                  /\ pc' = "returned"
                  /\ UNCHANGED process_futures

\* One iteration of `for future in as_completed(search_futures)`: the
\* orchestrator takes a finished unit, in any order.
SearchCollect(i) ==
    /\ pc = "search"
    /\ search_futures[i].state = "done"
    /\ LET results == search_futures[i].result
           fs      == [search_futures EXCEPT ![i].state = "collected"]
           found   == IF results # <<>> THEN extend(found_files, results)
                      ELSE found_files
           n_found == IF results # <<>> THEN found_count + Len(results) ELSE found_count
       IN  /\ search_futures' = fs
           /\ search_processed' = search_processed + 1
           /\ found_count' = n_found
           /\ found_files' = found
           /\ progress' = update_progress(progress, "search",
                                           search_processed + 1, Len(filenames))
           /\ IF AllCollected(fs)
              THEN AfterSearch(found, n_found, log_messages)
              ELSE UNCHANGED <<pc, log_messages, process_futures>>
    /\ LogWritten
    /\ UNCHANGED <<cfgvars, filenames, processed_files, failed_files,
                   processed_count, provider_calls, files, dirs, now>>

\* (variant: process_file itself appends the pair to the result lists)
ActionWorker_recording(i) ==
    /\ pc = "action"
    /\ process_futures[i].state = "pending"
    /\ LET r == process_file(found_files[i], delete_mode, copy_path, move_path,
                             match_folder_structure, files, dirs)
       IN  /\ process_futures' = [process_futures EXCEPT ![i] =
                                     [state |-> "done", ret |-> r.ret, ops |-> r.ops]]
           /\ files' = r.files
           /\ dirs' = r.dirs
           /\ processed_files' = IF r.ret THEN Append(processed_files, found_files[i])
                                 ELSE processed_files
           /\ failed_files' = IF r.ret THEN failed_files
                              ELSE Append(failed_files, found_files[i])
           /\ log_files' =
                 IF r.ret THEN log_files
                 ELSE write_log(log_files, log_path, now,
                                <<Msg("error_processing", found_files[i][2])>>)
    /\ UNCHANGED <<cfgvars, pc, filenames, search_futures, found_files,
                   search_processed, found_count,
                   processed_count, progress, log_messages, provider_calls, now>>

\* A worker of the action pool runs process_file for found pair i; when it
\* fails, the worker's copy of the searcher logs the error (to the log
\* file only: the worker has no log callback).
ActionWorker(i) ==
    /\ pc = "action"
    /\ process_futures[i].state = "pending"
    /\ LET r == process_file(found_files[i], delete_mode, copy_path, move_path,
                             match_folder_structure, files, dirs)
       IN  /\ process_futures' = [process_futures EXCEPT ![i] =
                                     [state |-> "done", ret |-> r.ret, ops |-> r.ops]]
           /\ files' = r.files
           /\ dirs' = r.dirs
           /\ log_files' =
                 IF r.ret THEN log_files
                 ELSE write_log(log_files, log_path, now,
                                <<Msg("error_processing", found_files[i][2])>>)
    /\ UNCHANGED <<cfgvars, pc, filenames, search_futures, found_files,
                   processed_files, failed_files, search_processed, found_count,
                   processed_count, progress, log_messages, provider_calls, now>>

\* (variant: a failed outcome is not recorded)
record_outcome_success_only(ok, processed, failed, pair) ==
    IF ok THEN <<Append(processed, pair), failed>>
    ELSE <<processed, failed>>

\* `if future.result(): self.processed_files.append(...) else:
\* self.failed_files.append(...)`: the two lists after one outcome, where
\* pair is self.found_files[processed_count - 1]
record_outcome(ok, processed, failed, pair) ==
    IF ok THEN <<Append(processed, pair), failed>>
    ELSE <<processed, Append(failed, pair)>>

\* One iteration of `for future in as_completed(process_futures)`; after the
\* last one the summary is logged and process_files returns.
ActionCollect(i) ==
    /\ pc = "action"
    /\ process_futures[i].state = "done"
    /\ LET n      == processed_count + 1
           fs     == [process_futures EXCEPT ![i].state = "collected"]
           lists  == record_outcome(process_futures[i].ret, processed_files,
                                    failed_files, found_files[n])
           done   == lists[1]
           failed == lists[2]
       IN  /\ process_futures' = fs
           /\ processed_count' = n
           /\ processed_files' = done
           /\ failed_files' = failed
           /\ progress' = update_progress(progress,
                                           IF delete_mode THEN "delete" ELSE "process",
                                           n, Len(found_files))
           /\ IF AllCollected(fs)
              THEN /\ log_messages' = log_messages \o
                          summary_messages(Len(filenames), found_count, done, failed) \o
                          actions_taken(log_path, copy_path, move_path,
                                        delete_mode, done)
                   /\ pc' = "returned"
              ELSE UNCHANGED <<pc, log_messages>>
    /\ LogWritten
    /\ UNCHANGED <<cfgvars, filenames, search_futures, found_files,
                   search_processed, found_count, provider_calls, files, dirs, now>>

Next ==
    \/ Start
    \/ \E i \in 1..Len(search_futures) : SearchWorker(i)
    \/ \E i \in 1..Len(search_futures) : SearchCollect(i)
    \/ \E i \in 1..Len(process_futures) : ActionWorker(i)
    \/ \E i \in 1..Len(process_futures) : ActionCollect(i)

Spec == Init /\ [][Next]_vars

\* The clock advances by a second.
Tick ==
    /\ now < MaxClock
    /\ now' = now + 1
    /\ UNCHANGED <<cfgvars, pc, filenames, search_futures, process_futures,
                   found_files, processed_files, failed_files, search_processed,
                   found_count, processed_count, progress, log_messages,
                   provider_calls, files, dirs, log_files>>

LogNext ==
    \/ Next
    \/ Tick

\* Runs that write a log file, with the clock running.
LogSpec == LogInit /\ [][LogNext]_vars

\* ------------------------------------------------------------------ the GUI
\* The texts the user types into the input box.
GuiInputs == {default_text, <<NameF>>, <<<<" ">>>>}

\* The config files a first launch can find: none, or one with the six
\* options.
InitialConfigs ==
    {NoFile} \cup
    {[k \in SettingsKeys |->
         CASE k = <<"Interface", "language">> -> English
           [] k = <<"Search", "regex_filter">> -> regex
           [] k = <<"Output", "enable_logging">> -> FalseStr
           [] k = <<"Output", "match_folder_structure">> -> structure
           [] k = <<"Paths", "default_copy_folder">> -> copy
           [] k = <<"Paths", "default_move_folder">> -> move] :
       regex \in {<<>>, <<"(">>}, structure \in {TrueStr, FalseStr},
       copy \in {<<>>, CopyRoot}, move \in {<<>>, MoveRoot}}

\* no EverythingSearcher exists: its fields and the locals of process_files
\* hold nothing
NoSearcher ==
    /\ input_text' = <<>>
    /\ copy_path' = <<>>
    /\ move_path' = <<>>
    /\ match_folder_structure' = TRUE
    /\ delete_mode' = FALSE
    /\ regex_filter' = <<>>
    /\ lang' = TRUE
    /\ log_path' = <<>>
    /\ filenames' = <<>>
    /\ search_futures' = <<>>
    /\ process_futures' = <<>>
    /\ found_files' = <<>>
    /\ processed_files' = <<>>
    /\ failed_files' = <<>>
    /\ search_processed' = 0
    /\ found_count' = 0
    /\ processed_count' = 0
    /\ progress' = <<>>
    /\ log_messages' = <<>>
    /\ provider_calls' = <<>>

searchervars == <<input_text, copy_path, move_path, match_folder_structure,
                  delete_mode, regex_filter, lang, log_path, filenames,
                  search_futures, process_futures, found_files, processed_files,
                  failed_files, search_processed, found_count, processed_count,
                  progress, log_messages, provider_calls>>

\* The program is not running; the disk is as in a fresh run.
GuiInit ==
    /\ pc = "closed"
    /\ input_text = <<>>
    /\ copy_path = <<>>
    /\ move_path = <<>>
    /\ match_folder_structure = TRUE
    /\ delete_mode = FALSE
    /\ regex_filter = <<>>
    /\ lang = TRUE
    /\ log_path = <<>>
    /\ filenames = <<>>
    /\ search_futures = <<>>
    /\ process_futures = <<>>
    /\ found_files = <<>>
    /\ processed_files = <<>>
    /\ failed_files = <<>>
    /\ search_processed = 0
    /\ found_count = 0
    /\ processed_count = 0
    /\ progress = <<>>
    /\ log_messages = <<>>
    /\ provider_calls = <<>>
    /\ files = InitialFiles
    /\ dirs = InitialDirs
    /\ now = 0
    /\ log_files = [t \in 0..MaxClock |-> <<>>]
    /\ form = NoForm
    /\ config \in InitialConfigs
    /\ last_call = NoCall

\* SearchGUI.__init__: the config file is read, the form is set up and the
\* settings are loaded into it.
Launch ==
    /\ pc = "closed"
    /\ LET c == config_read(config)
           r == load_settings(c, setup_gui(c))
       IN  IF r.raised
           THEN UNCHANGED <<pc, form>>
           ELSE pc' = "gui" /\ form' = r.form
    /\ last_call' = NoCall
    /\ UNCHANGED <<searchervars, files, dirs, now, log_files, config>>

\* The user clicks the delete check box.
ToggleDelete ==
    /\ pc = "gui"
    /\ form' = [form EXCEPT !.delete_mode = ~@]
    /\ UNCHANGED <<searchervars, pc, files, dirs, now, log_files, config, last_call>>

\* The user replaces the text of the input box.
EditInput(text) ==
    /\ pc = "gui"
    /\ form' = [form EXCEPT !.input_text = text]
    /\ UNCHANGED <<searchervars, pc, files, dirs, now, log_files, config, last_call>>

\* browse_output("move") with a folder chosen in the dialog
BrowseMove(folder) ==
    /\ pc = "gui"
    /\ form' = IF folder # <<>> THEN [form EXCEPT !.move_path = folder] ELSE form
    /\ UNCHANGED <<searchervars, pc, files, dirs, now, log_files, config, last_call>>

\* clear_form
ClearForm ==
    /\ pc = "gui"
    /\ form' = [form EXCEPT !.input_text = default_text, !.copy_path = <<>>,
                            !.move_path = <<>>, !.log_enabled = FALSE,
                            !.match_folder_structure = TRUE,
                            !.delete_mode = FALSE, !.regex_filter = <<>>]
    /\ UNCHANGED <<searchervars, pc, files, dirs, now, log_files, config, last_call>>

\* (variant: only a delete run asks for a confirmation)
confirmation_delete_only(del, mv) == IF del THEN "delete" ELSE "none"

\* the confirmation start_processing asks for: `if self.delete_mode.get():
\* ... elif self.move_path.get(): ...`
confirmation(del, mv) ==
    IF del THEN "delete" ELSE IF mv # <<>> THEN "move" ELSE "none"

\* _confirm_action(action_type), the user answering the dialog with answer
confirm_action(action_type, answer) ==
    IF action_type \in {"delete", "move"} THEN answer ELSE TRUE

\* the record of a call of start_processing
Started(asked, answer, result) ==
    [op |-> "start_processing", asked |-> asked, answer |-> answer,
     result |-> result]

\* start_processing up to the call of process_files: the checks of the
\* input, the confirmation and the regex, in this order, each of which can
\* end the call, and then the construction of the EverythingSearcher.
StartProcessing ==
    /\ pc = "gui"
    /\ LET names == StrippedNonBlank(form.input_text)
           asked == confirmation(form.delete_mode, form.move_path)
           regex_pattern == strip(form.regex_filter)
       IN  IF names = <<>> \/ names = default_text
           THEN /\ last_call' = Started("none", TRUE, "no_files")
                /\ UNCHANGED <<searchervars, pc, dirs>>
           ELSE \E answer \in BOOLEAN :
                  LET ok == confirm_action(asked, answer)
                  IN  IF ~ok
                      THEN /\ last_call' = Started(asked, ok, "declined")
                           /\ UNCHANGED <<searchervars, pc, dirs>>
                      ELSE IF regex_pattern # <<>> /\ ~re_compile_ok(regex_pattern)
                      THEN /\ last_call' = Started(asked, ok, "invalid_regex")
                           /\ UNCHANGED <<searchervars, pc, dirs>>
                      ELSE /\ last_call' = Started(asked, ok, "started")
                           /\ pc' = "start"
                           /\ input_text' = names
                           /\ copy_path' = form.copy_path
                           /\ move_path' = form.move_path
                           /\ log_path' = IF form.log_enabled THEN LogRoot ELSE <<>>
                           /\ match_folder_structure' = form.match_folder_structure
                           /\ delete_mode' = form.delete_mode
                           /\ regex_filter' = regex_pattern
                           /\ lang' = TRUE
                           /\ filenames' = <<>>
                           /\ search_futures' = <<>>
                           /\ process_futures' = <<>>
                           /\ found_files' = <<>>
                           /\ processed_files' = <<>>
                           /\ failed_files' = <<>>
                           /\ search_processed' = 0
                           /\ found_count' = 0
                           /\ processed_count' = 0
                           /\ progress' = <<>>
                           /\ log_messages' = <<>>
                           /\ provider_calls' = <<>>
                           /\ dirs' =
                                LET d0 == IF form.log_enabled
                                          THEN makedirs(LogRoot, dirs) ELSE dirs
                                    d1 == IF form.copy_path # <<>>
                                          THEN makedirs(form.copy_path, d0) ELSE d0
                                IN  IF form.move_path # <<>>
                                    THEN makedirs(form.move_path, d1) ELSE d1
    /\ UNCHANGED <<files, now, log_files, form, config>>

\* start_processing after process_files has returned (or raised, which the
\* except clause reports): the searcher, a local of the call, is gone.
FinishProcessing ==
    /\ pc \in {"returned", "raised"}
    /\ pc' = "gui"
    /\ NoSearcher
    /\ UNCHANGED <<files, dirs, now, log_files, form, config, last_call>>

\* _on_closing: the settings are set and written to the config file and
\* the window is destroyed; when a call of set raises, nothing is written
\* and the window stays.
Close ==
    /\ pc = "gui"
    /\ LET r == on_closing(config_read(config), form)
       IN  IF r.raised
           THEN UNCHANGED <<pc, config>>
           ELSE pc' = "closed" /\ config' = r.config
    /\ UNCHANGED <<searchervars, files, dirs, now, log_files, form, last_call>>

GuiNext ==
    \/ Launch
    \/ ToggleDelete
    \/ \E text \in GuiInputs : EditInput(text)
    \/ \E folder \in {<<>>, MoveRoot} : BrowseMove(folder)
    \/ ClearForm
    \/ StartProcessing
    \/ FinishProcessing
    \/ Close
    \/ Next

\* Sessions of the GUI: launching, editing the form, running, closing.
GuiSpec == GuiInit /\ [][GuiNext]_vars

\* ------------------------------------------------- LanguageManagerEverything
\* The loaded language file is a nested dict whose leaves are strings or
\* other JSON values.  The element "{}" of a string is a replacement field.
Str(v)  == [t |-> "str", v |-> v]
Dict(d) == [t |-> "dict", d |-> d]
Other   == [t |-> "other"]
Missing == [t |-> "missing"]

text == <<"t", "e", "x", "t">>

\* self.strings: w is a string, m.s a string with a field, m.t a dict with
\* a 'text' string, m.e a dict without 'text', m.b a dict whose 'text' is
\* not a string, m.n a number
strings ==
    Dict(<<"w">> :> Str(<<"W">>) @@
         <<"m">> :> Dict(<<"s">> :> Str(<<"S", "{}">>) @@
                         <<"t">> :> Dict(text :> Str(<<"T">>)) @@
                         <<"e">> :> Dict(<<"x">> :> Str(<<"X">>)) @@
                         <<"b">> :> Dict(text :> Other) @@
                         <<"n">> :> Other))

\* key.split('.')
RECURSIVE split(_)
split(s) ==
    IF \A i \in 1..Len(s) : s[i] # "." THEN <<s>>
    ELSE LET i == CHOOSE i \in 1..Len(s) :
                      s[i] = "." /\ \A j \in 1..(i - 1) : s[j] # "."
         IN  <<SubSeq(s, 1, i - 1)>> \o split(SubSeq(s, i + 1, Len(s)))

\* the loop `for k in keys`: the value the path leads to, or Missing when a
\* segment is not in the dict or the value on the way is not a dict
RECURSIVE traverse(_, _)
traverse(value, keys) ==
    IF keys = <<>> THEN value
    ELSE IF value.t = "dict" /\ Head(keys) \in DOMAIN value.d
         THEN traverse(value.d[Head(keys)], Tail(keys))
         ELSE Missing

\* the number of replacement fields of a string
RECURSIVE fields(_)
fields(v) ==
    IF v = <<>> THEN 0
    ELSE (IF Head(v) = "{}" THEN 1 ELSE 0) + fields(Tail(v))

\* value.format(*args) when there are enough arguments
RECURSIVE format(_, _)
format(v, args) ==
    IF v = <<>> THEN <<>>
    ELSE IF Head(v) = "{}" THEN Head(args) \o format(Tail(v), Tail(args))
    ELSE <<Head(v)>> \o format(Tail(v), args)

\* get_string(key, *args)
get_string(key, args) ==
    IF key = <<>> THEN key
    ELSE LET found == traverse(strings, split(key))
             value == IF found.t = "dict"
                      THEN IF text \in DOMAIN found.d THEN found.d[text] ELSE Missing
                      ELSE found
         IN  IF value.t = "missing" THEN key
             ELSE IF args # <<>> /\ value.t = "str"
                  THEN IF fields(value.v) <= Len(args) THEN format(value.v, args)
                       ELSE value.v
             ELSE IF value.t # "str" THEN key
             ELSE value.v

\* ------------------------------------------------------------------ lookups
\* The keys looked up in the language file.
StringKeys ==
    {<<>>, <<"w">>, <<"m", ".", "s">>, <<"m", ".", "t">>, <<"m", ".", "e">>,
     <<"m", ".", "b">>, <<"m", ".", "n">>, <<"m", ".", "q">>, <<"q", ".", "s">>,
     <<"w", ".", "s">>, <<"m">>, <<"m", ".", ".", "s">>}

\* The options looked up and set, the values set and the defaults passed.
LookupKeys ==
    {<<"Search", "regex_filter">>, <<"Output", "enable_logging">>, <<"New", "k">>}

LookupValues == {<<>>, <<"a">>, <<"%", "%">>, <<"a", "%">>, TrueStr}

LookupDefaults == {<<>>, <<"d">>}

\* A ConfigManagerEverything made without a config file on disk, and a
\* language manager with its strings loaded; no GUI, no searcher.
LookupInit ==
    /\ pc = "lookup"
    /\ input_text = <<>>
    /\ copy_path = <<>>
    /\ move_path = <<>>
    /\ match_folder_structure = TRUE
    /\ delete_mode = FALSE
    /\ regex_filter = <<>>
    /\ lang = TRUE
    /\ log_path = <<>>
    /\ filenames = <<>>
    /\ search_futures = <<>>
    /\ process_futures = <<>>
    /\ found_files = <<>>
    /\ processed_files = <<>>
    /\ failed_files = <<>>
    /\ search_processed = 0
    /\ found_count = 0
    /\ processed_count = 0
    /\ progress = <<>>
    /\ log_messages = <<>>
    /\ provider_calls = <<>>
    /\ files = InitialFiles
    /\ dirs = InitialDirs
    /\ now = 0
    /\ log_files = [t \in 0..MaxClock |-> <<>>]
    /\ form = NoForm
    /\ config = config_read(NoFile)
    /\ last_call = NoCall

\* config.set(section, key, value); here config is the ConfigParser
ConfigSet(k, value) ==
    /\ pc = "lookup"
    /\ LET r == set(config, k[1], k[2], value)
       IN  /\ config' = r.config
           /\ last_call' = [op |-> "set", section |-> k[1], key |-> k[2],
                            value |-> value, raised |-> r.raised]
    /\ UNCHANGED <<searchervars, pc, files, dirs, now, log_files, form>>

\* config.get(section, key, default)
ConfigGet(k, default) ==
    /\ pc = "lookup"
    /\ LET r == get(config, k[1], k[2], default)
       IN  last_call' = [op |-> "get", section |-> k[1], key |-> k[2],
                         default |-> default, raised |-> r.raised,
                         value |-> r.value]
    /\ UNCHANGED <<searchervars, pc, files, dirs, now, log_files, form, config>>

\* config.get_bool(section, key, default)
ConfigGetBool(k, default) ==
    /\ pc = "lookup"
    /\ LET r == get_bool(config, k[1], k[2], default)
       IN  last_call' = [op |-> "get_bool", section |-> k[1], key |-> k[2],
                         default |-> default, raised |-> r.raised,
                         value |-> r.value]
    /\ UNCHANGED <<searchervars, pc, files, dirs, now, log_files, form, config>>

\* lang.get_string(key, *args)
GetString(key, args) ==
    /\ pc = "lookup"
    /\ last_call' = [op |-> "get_string", key |-> key, args |-> args,
                     value |-> get_string(key, args)]
    /\ UNCHANGED <<searchervars, pc, files, dirs, now, log_files, form, config>>

LookupNext ==
    \/ \E k \in LookupKeys, value \in LookupValues : ConfigSet(k, value)
    \/ \E k \in LookupKeys, default \in LookupDefaults : ConfigGet(k, default)
    \/ \E k \in LookupKeys, default \in BOOLEAN : ConfigGetBool(k, default)
    \/ \E key \in StringKeys, args \in {<<>>, <<<<"a">>>>} : GetString(key, args)

\* Any sequence of lookups and settings.
LookupSpec == LookupInit /\ [][LookupNext]_vars

\* =================================================================== claims
HasMsg(key) == \E k \in 1..Len(log_messages) : log_messages[k].key = key

\* the argument of the (only) message with this key
MsgArg(key) ==
    log_messages[CHOOSE k \in 1..Len(log_messages) : log_messages[k].key = key].arg

\* the position of the (only) message with this key
MsgPos(key) == CHOOSE k \in 1..Len(log_messages) : log_messages[k].key = key

InvalidRegex == regex_filter # <<>> /\ \E i \in 1..Len(regex_filter) : regex_filter[i] = "("

ActionMode == delete_mode \/ copy_path # <<>> \/ move_path # <<>>

\* all calls made on the disk by the action units that have run
ActionOps ==
    UNION {{<<i, k>> : k \in 1..Len(process_futures[i].ops)} :
              i \in {j \in 1..Len(process_futures) :
                         process_futures[j].state # "pending"}}

OpOf(ik) == process_futures[ik[1]].ops[ik[2]]

\* C1: with a regex filter that does not compile, no search unit is ever
\* submitted, the provider is never run, the disk is not touched and the
\* progress callback is never called; a run with filenames to search
\* returns with the validation error as its last message.
C1_InvalidRegexAborts ==
    InvalidRegex =>
        /\ search_futures = <<>>
        /\ provider_calls = <<>>
        /\ process_futures = <<>>
        /\ progress = <<>>
        /\ files = InitialFiles
        /\ found_files = <<>>
        /\ (pc = "returned" /\ filenames # <<>> =>
               log_messages[Len(log_messages)].key = "invalid_regex")

C1_Witness ==
    /\ InvalidRegex
    /\ pc = "returned"
    /\ filenames # <<>>
    /\ HasMsg("invalid_regex")

\* C2: in delete mode, whatever copy and move destinations are also set,
\* the only call an action unit makes on the disk is the removal of the
\* found path, and no file is ever created: the files on disk are always
\* among those present at the start.
C2_DeleteExcludesCopyMove ==
    delete_mode =>
        /\ \A ik \in ActionOps :
              /\ OpOf(ik).op = "remove"
              /\ OpOf(ik).src = found_files[ik[1]][2]
        /\ files \subseteq InitialFiles

C2_Witness ==
    /\ delete_mode
    /\ copy_path # <<>>
    /\ move_path # <<>>
    /\ pc = "returned"
    /\ processed_files # <<>>
    /\ \E ik \in ActionOps : OpOf(ik).op = "remove" /\ OpOf(ik).ok

\* C3: when an action mode is configured and the summary has been logged,
\* the processed list and the failed list together have as many entries as
\* there are found pairs (and as the found count of the summary), in every
\* completion order.
C3_CountsAddUp ==
    (ActionMode /\ HasMsg("summary")) =>
        /\ Len(processed_files) + Len(failed_files) = Len(found_files)
        /\ Len(found_files) = found_count
        /\ MsgArg("total_found") = found_count

\* a summary with more found pairs than requested filenames, successes and
\* failures
C3_Witness ==
    /\ ActionMode
    /\ HasMsg("summary")
    /\ found_count > Len(filenames)
    /\ processed_files # <<>>
    /\ failed_files # <<>>

\* search units were submitted: the run passed the regex validation
PassedValidation == search_futures # <<>>

\* C4 (as stated): every run that passed the regex validation and returned
\* has logged the summary with its counts, also when nothing was found.
\* (The failed count is left out of this statement: already the summary
\* and the other three counts are missing in the run that refutes it.)
C4_AlwaysSummary ==
    (pc = "returned" /\ PassedValidation) =>
        /\ HasMsg("summary")
        /\ HasMsg("total_processed")
        /\ HasMsg("total_found")
        /\ HasMsg("success_processed")

\* C4 (amended): a run that passed the regex validation and returned has
\* logged the summary with the requested, found and succeeded counts if at
\* least one pair was found, with the failed count, right after the
\* succeeded count, exactly when an action failed; a run that found nothing
\* has logged "no matches" as its last message and no summary.
C4_SummaryWhenFound ==
    (pc = "returned" /\ PassedValidation) =>
        IF found_files # <<>>
        THEN /\ HasMsg("summary")
             /\ MsgArg("total_processed") = Len(filenames)
             /\ MsgArg("total_found") = Len(found_files)
             /\ MsgArg("success_processed") = Len(processed_files)
             /\ HasMsg("failed_operations") <=> failed_files # <<>>
             /\ failed_files # <<>> =>
                   /\ MsgArg("failed_operations") = Len(failed_files)
                   /\ MsgPos("failed_operations") = MsgPos("success_processed") + 1
        ELSE /\ ~HasMsg("summary")
             /\ log_messages[Len(log_messages)].key = "no_matches"

\* a run in which every action failed, ended by the summary
C4_Witness ==
    /\ pc = "returned"
    /\ PassedValidation
    /\ HasMsg("summary")
    /\ processed_files = <<>>
    /\ failed_files # <<>>
    /\ MsgArg("failed_operations") = Len(found_files)

\* the stripped non-blank lines the provider prints for a search term
ProviderPaths(search_term) ==
    {strip(es_stdout(search_term)[j]) : j \in 1..Len(es_stdout(search_term))} \ {<<>>}

\* the pairs a sequence of pairs holds
PairSet(pairs) == {pairs[k] : k \in 1..Len(pairs)}

\* the search units that have run
SearchDone == {i \in 1..Len(search_futures) : search_futures[i].state # "pending"}

\* C5: every pair returned by a search unit, and so every pair of
\* found_files, carries the unit's filename and a (stripped, non-blank) line
\* the provider printed for that filename, and with a regex filter that
\* path has a match of the regex somewhere in it (search, not full match);
\* without a filter a unit whose provider exited with 0 returns every
\* non-blank line.
C5_FoundPathsMatch ==
    /\ \A i \in SearchDone :
          LET res == search_futures[i].result
          IN  /\ \A k \in 1..Len(res) :
                    /\ res[k][1] = filenames[i]
                    /\ res[k][2] \in ProviderPaths(filenames[i])
                    /\ regex_filter # <<>> =>
                          \E off \in 0..Len(res[k][2]) :
                              re_match_at(regex_filter, res[k][2], off)
              /\ (regex_filter = <<>> /\ search_futures[i].outcome = "exit0") =>
                    {res[k][2] : k \in 1..Len(res)} = ProviderPaths(filenames[i])
    /\ \A pair \in PairSet(found_files) :
          /\ pair[2] \in ProviderPaths(pair[1])
          /\ regex_filter # <<>> =>
                \E off \in 0..Len(pair[2]) : re_match_at(regex_filter, pair[2], off)

\* with the filter a.b the provider's two lines for f are narrowed to the
\* one under a\b, which the regex matches in the middle of the path
C5_Witness ==
    /\ regex_filter = <<"a", ".", "b">>
    /\ found_files = <<<<NameF, PathABF>>>>
    /\ ~re_match_at(regex_filter, PathABF, 0)
    /\ PathAF \in ProviderPaths(NameF)

\* the lines of the input that are not blank
NonBlankLines == {k \in 1..Len(input_text) : strip(input_text[k]) # <<>>}

\* C6 (as stated): the number of search units submitted equals the number
\* of distinct non-blank input lines.
C6_UnitsAreDistinctLines ==
    PassedValidation =>
        Len(search_futures) = Cardinality({input_text[k] : k \in NonBlankLines})

\* C6 (amended): the number of search units submitted equals the number of
\* non-blank input lines, one unit per line in input order, so a filename
\* on two lines is searched twice.
C6_UnitsAreNonBlankLines ==
    PassedValidation =>
        /\ Len(search_futures) = Cardinality(NonBlankLines)
        /\ Len(filenames) = Len(search_futures)
        /\ \A k \in NonBlankLines :
              filenames[Cardinality({j \in NonBlankLines : j <= k})] = strip(input_text[k])
        /\ (pc # "search" =>
               \A i \in 1..Len(search_futures) : provider_calls[i] = 1)

\* the same filename on two lines: two units, both run
C6_Witness ==
    /\ Len(input_text) >= 2
    /\ input_text[1] = NameF
    /\ input_text[2] = NameF
    /\ Len(search_futures) = 2
    /\ provider_calls = <<1, 1>>
    /\ search_processed = 2

\* the found pairs whose own action returned failure
FailedPairs ==
    {found_files[i] : i \in {j \in 1..Len(process_futures) :
                                /\ process_futures[j].state # "pending"
                                /\ ~process_futures[j].ret}}

\* C7: after the action stage, a failed action has marked exactly its own
\* pair as failed (the failed list holds the pairs whose action failed and
\* no others), every found pair had its action run, and the summary was
\* logged.
C7_FailureMarksOnlyThatPair ==
    (pc = "returned" /\ process_futures # <<>>) =>
        /\ Len(process_futures) = Len(found_files)
        /\ AllCollected(process_futures)
        /\ HasMsg("summary")
        /\ PairSet(failed_files) = FailedPairs

\* C8: the provider is run exactly once by every search unit that has run
\* and not at all before; a unit whose provider did not exit with 0 (exit
\* code or exception) returns no pairs; the run goes on: once all units are
\* collected, found_files holds exactly the pairs returned by the units and
\* found_count their number.
C8_ProviderOncePerUnit ==
    PassedValidation =>
        /\ pc # "raised"
        /\ \A i \in 1..Len(search_futures) :
              IF search_futures[i].state = "pending"
              THEN provider_calls[i] = 0
              ELSE /\ provider_calls[i] = 1
                   /\ search_futures[i].outcome # "exit0" =>
                         search_futures[i].result = <<>>
        /\ pc # "search" =>
              /\ AllCollected(search_futures)
              /\ PairSet(found_files) =
                    UNION {PairSet(search_futures[i].result) :
                              i \in 1..Len(search_futures)}
              /\ found_count = Len(found_files)

\* one unit failed through an exception, the other one's pairs were found
C8_Witness ==
    /\ Len(search_futures) = 2
    /\ pc \in {"action", "returned"}
    /\ search_futures[1].outcome = "exception"
    /\ search_futures[2].outcome = "exit0"
    /\ found_files # <<>>
    /\ provider_calls = <<1, 1>>

\* the successful copy2 and move calls of the action units
Transfers == {ik \in ActionOps : OpOf(ik).op \in {"copy2", "move"} /\ OpOf(ik).ok}

RootOf(o) == IF o.op = "copy2" THEN copy_path ELSE move_path

\* every proper prefix of path p that ends before a separator, from the
\* root folder of the drive on
Folders(p) == {SubSeq(p, 1, k) : k \in {j \in 3..(Len(p) - 1) : p[j + 1] = sep}}

\* C9: with structure preservation on, a successful copy (move) of a found
\* file X:\rest has put it at <destination root>\rest, that file exists and
\* so do all folders above it.
C9_StructuredDestination ==
    match_folder_structure =>
        \A ik \in Transfers :
            LET o == OpOf(ik)
            IN  /\ o.src = found_files[ik[1]][2]
                /\ o.src[2] = ":" /\ o.src[3] = sep
                /\ o.dst = RootOf(o) \o <<sep>> \o SubSeq(o.src, 4, Len(o.src))
                /\ o.dst \in files
                /\ Folders(o.dst) \subseteq dirs

\* C:\a\b\fx copied into D:\o is D:\o\a\b\fx
C9_Witness ==
    /\ match_folder_structure
    /\ \E ik \in Transfers :
          /\ OpOf(ik).op = "copy2"
          /\ OpOf(ik).src = <<"C", ":", sep, "a", sep, "b", sep, "f", "x">>
          /\ OpOf(ik).dst = <<"D", ":", sep, "o", sep, "a", sep, "b", sep, "f", "x">>
    /\ <<"D", ":", sep, "o", sep, "a", sep, "b", sep, "f", "x">> \in files

\* C10: with structure preservation off, a successful copy (move) of a
\* found pair (requested name, source path) has put the file at
\* <destination root>\<requested name>.
C10_FlatDestination ==
    ~match_folder_structure =>
        \A ik \in Transfers :
            LET o == OpOf(ik)
            IN  /\ o.src = found_files[ik[1]][2]
                /\ o.dst = RootOf(o) \o <<sep>> \o found_files[ik[1]][1]
                /\ o.dst \in files

\* C:\a\b\fx, found for the requested name f, moved flat into E:\m is E:\m\f
C10_Witness ==
    /\ ~match_folder_structure
    /\ \E ik \in Transfers :
          /\ OpOf(ik).op = "move"
          /\ OpOf(ik).src = <<"C", ":", sep, "a", sep, "b", sep, "f", "x">>
          /\ found_files[ik[1]][1] = <<"f">>
          /\ OpOf(ik).dst = <<"E", ":", sep, "m", sep, "f">>
    /\ <<"E", ":", sep, "m", sep, "f", "x">> \notin files

\* the units of a pool the orchestrator has taken from as_completed
Collected(fs) == {i \in 1..Len(fs) : fs[i].state = "collected"}

ActionPhase == IF delete_mode THEN "delete" ELSE "process"

\* C11: the calls of the progress callback are, in order, ("search", k,
\* number of filenames) for k = 1, 2, ... up to the number of search units
\* taken so far, followed by (phase, k, number of found pairs) for k = 1,
\* 2, ... up to the number of action units taken so far: one call per
\* completed unit, counts rising by one and never above the total, in
\* every completion order.
C11_ProgressCounts ==
    /\ search_processed = Cardinality(Collected(search_futures))
    /\ processed_count = Cardinality(Collected(process_futures))
    /\ search_processed <= Len(filenames)
    /\ processed_count <= Len(found_files)
    /\ Len(progress) = search_processed + processed_count
    /\ \A k \in 1..search_processed :
          progress[k] = <<"search", k, Len(filenames)>>
    /\ \A k \in 1..processed_count :
          progress[search_processed + k] = <<ActionPhase, k, Len(found_files)>>

\* both stages finished, with the second search unit the first one to
\* complete and its pairs the first ones found
C11_Witness ==
    /\ pc = "returned"
    /\ Len(search_futures) = 2
    /\ search_futures[1].result # <<>>
    /\ Len(process_futures) >= 2
    /\ found_files[1][1] = filenames[2]
    /\ Len(progress) = 2 + Len(found_files)
    /\ progress[Len(progress)] = <<ActionPhase, Len(found_files), Len(found_files)>>

\* the kinds of action (remove, copy2, move) unit i has attempted
KindsOf(i) ==
    {process_futures[i].ops[k].op : k \in 1..Len(process_futures[i].ops)}
        \cap {"remove", "copy2", "move"}

\* how many calls of this kind unit i has made
CountOf(i, kind) ==
    Cardinality({k \in 1..Len(process_futures[i].ops) :
                    process_futures[i].ops[k].op = kind})

ActionDone == {i \in 1..Len(process_futures) : process_futures[i].state # "pending"}

\* C12 (as stated): on every found pair at most one of delete, copy and
\* move is performed.
C12_AtMostOneAction ==
    \A i \in ActionDone : Cardinality(KindsOf(i)) <= 1

\* C12 (amended): a found pair is either deleted (delete mode, nothing
\* else) or goes through the configured copy and move blocks, each at most
\* once; with both destinations set a pair whose copy succeeded is copied
\* and moved.
C12_DeleteOrCopyAndMove ==
    \A i \in ActionDone :
        /\ CountOf(i, "remove") <= 1
        /\ CountOf(i, "copy2") <= 1
        /\ CountOf(i, "move") <= 1
        /\ "remove" \in KindsOf(i) => KindsOf(i) = {"remove"} /\ delete_mode
        /\ delete_mode => KindsOf(i) = {"remove"}
        /\ "copy2" \in KindsOf(i) => copy_path # <<>>
        /\ "move" \in KindsOf(i) => move_path # <<>>
        /\ (~delete_mode /\ copy_path # <<>> /\ move_path # <<>>
              /\ process_futures[i].ret) => KindsOf(i) = {"copy2", "move"}

\* a pair that was copied and moved in the same run
C12_Witness ==
    \E i \in ActionDone :
        /\ KindsOf(i) = {"copy2", "move"}
        /\ process_futures[i].ret
        /\ found_files[i][2] \notin files

\* the log files that have been written to
LogFilesUsed == {t \in 0..MaxClock : log_files[t] # <<>>}

\* C13: with a log directory configured, all log lines of a run are in one
\* single log file.
C13_OneLogFile ==
    log_path # <<>> => Cardinality(LogFilesUsed) <= 1

\* C14: found_files grows only when the orchestrator takes a finished
\* search unit, and then by the pairs of that unit, appended at the end in
\* the order the unit returned them: the list is in completion order, not
\* in input order.
C14_FoundInCompletionOrder ==
    [][\/ found_files' = found_files
       \/ \E i \in 1..Len(search_futures) :
             /\ search_futures[i].state = "done"
             /\ search_futures'[i].state = "collected"
             /\ found_files' = found_files \o search_futures[i].result]_vars

\* the pairs of the second filename in front of those of the first one,
\* the two pairs of f in the order of the provider's lines
C14_Witness ==
    /\ filenames = <<NameF, NameG>>
    /\ found_files = <<<<NameG, PathG>>, <<NameF, PathAF>>, <<NameF, PathABF>>>>

\* C15: a run of a searcher built without a language manager (as main
\* builds it for --input) over an input with a non-blank line goes through
\* the search stage and returns; it never ends in an exception.
C15_CliRunCompletes ==
    (~lang /\ NonBlankLines # {} /\ pc # "start") =>
        /\ pc \in {"search", "action", "returned"}
        /\ Len(search_futures) = Cardinality(NonBlankLines)

\* the found pairs whose own action returned success
SucceededPairs ==
    {found_files[i] : i \in {j \in ActionDone : process_futures[j].ret}}

\* C16: after the action stage every pair of the processed list is a pair
\* whose own action returned success, and every pair of the failed list is
\* a pair whose own action returned failure.
C16_OutcomeOnOwnPair ==
    (pc = "returned" /\ process_futures # <<>>) =>
        /\ PairSet(processed_files) \subseteq SucceededPairs
        /\ PairSet(failed_files) \subseteq FailedPairs

\* both destinations are configured and delete mode is off
CopyAndMove == ~delete_mode /\ copy_path # <<>> /\ move_path # <<>>

\* the positions of the calls of this kind among the calls of unit i
CallsOf(i, kind) ==
    {k \in 1..Len(process_futures[i].ops) : process_futures[i].ops[k].op = kind}

\* C17: with a copy and a move destination (delete off), a unit moves the
\* source only after it has copied it: every move is preceded by the
\* successful copy of the same source, and after a successful unit the
\* file is at the copy destination and at the move destination and no
\* longer at the source path.
C17_CopyThenMove ==
    CopyAndMove =>
        \A i \in ActionDone :
            LET ops == process_futures[i].ops
            IN  /\ \A k \in CallsOf(i, "move") :
                      \E j \in CallsOf(i, "copy2") :
                          j < k /\ ops[j].ok /\ ops[j].src = ops[k].src
                /\ process_futures[i].ret =>
                      /\ CallsOf(i, "copy2") # {} /\ CallsOf(i, "move") # {}
                      /\ \A k \in CallsOf(i, "copy2") \cup CallsOf(i, "move") :
                            /\ ops[k].src = found_files[i][2]
                            /\ ops[k].dst \in files
                            /\ SubSeq(ops[k].dst, 1, Len(RootOf(ops[k]))) = RootOf(ops[k])
                      /\ found_files[i][2] \notin files

\* C:\a\b\fx copied below D:\o and moved below E:\m
C17_Witness ==
    /\ CopyAndMove
    /\ match_folder_structure
    /\ \E i \in ActionDone :
          /\ process_futures[i].ret
          /\ found_files[i][2] = PathABF
    /\ PathABF \notin files
    /\ CopyRoot \o SubSeq(PathABF, 3, Len(PathABF)) \in files
    /\ MoveRoot \o SubSeq(PathABF, 3, Len(PathABF)) \in files

\* C18 (as stated): with both destinations configured, the move of a found
\* file is attempted whether or not its copy succeeded.
C18_MoveAlwaysAttempted ==
    CopyAndMove =>
        \A i \in ActionDone : CallsOf(i, "move") # {}

\* C18 (amended): with both destinations configured, the move of a found
\* file is attempted exactly when its copy succeeded; a failed copy ends
\* the unit as failed without a move, and the unit succeeds only if both
\* the copy and the move succeeded.
C18_MoveOnlyAfterCopy ==
    CopyAndMove =>
        \A i \in ActionDone :
            LET ops == process_futures[i].ops
                copied == \E k \in CallsOf(i, "copy2") : ops[k].ok
                moved  == \E k \in CallsOf(i, "move") : ops[k].ok
            IN  /\ CallsOf(i, "copy2") # {}
                /\ CallsOf(i, "move") # {} <=> copied
                /\ process_futures[i].ret <=> (copied /\ moved)

\* one pair whose copy failed and which was not moved, next to a pair that
\* was copied and moved
C18_Witness ==
    /\ CopyAndMove
    /\ \E i \in ActionDone :
          /\ ~process_futures[i].ret
          /\ CallsOf(i, "move") = {}
          /\ \E k \in CallsOf(i, "copy2") : ~process_futures[i].ops[k].ok
    /\ \E i \in ActionDone :
          /\ process_futures[i].ret
          /\ CallsOf(i, "move") # {}

\* C19: once an action unit exists (or the disk has changed), every search
\* unit has been taken by the orchestrator and found_files holds all their
\* pairs; once the summary is logged, every action unit has been taken.
C19_StagesInSequence ==
    /\ (process_futures # <<>> \/ pc = "action" \/ files # InitialFiles) =>
          /\ \A k \in 1..Len(search_futures) : search_futures[k].state = "collected"
          /\ search_processed = Len(filenames)
          /\ Len(process_futures) = Len(found_files)
          /\ PairSet(found_files) =
                UNION {PairSet(search_futures[k].result) : k \in 1..Len(search_futures)}
    /\ HasMsg("summary") =>
          /\ pc = "returned"
          /\ \A k \in 1..Len(search_futures) : search_futures[k].state = "collected"
          /\ \A k \in 1..Len(process_futures) : process_futures[k].state = "collected"
          /\ log_messages[Len(log_messages)].key \in
                {"success_processed", "failed_operations", "actions_taken"}

\* an action unit has run after two search units
C19_Witness ==
    /\ pc = "action"
    /\ Len(search_futures) = 2
    /\ \E i \in ActionDone : process_futures[i].ops # <<>>
    /\ files # InitialFiles

\* a worker finishes a unit in this step
WorkerStep ==
    \/ \E i \in 1..Len(search_futures) :
          search_futures[i].state = "pending" /\ search_futures'[i].state = "done"
    \/ \E i \in 1..Len(process_futures) :
          process_futures[i].state = "pending" /\ process_futures'[i].state = "done"

\* the orchestrator takes a finished unit in this step
CollectStep ==
    \/ \E i \in 1..Len(search_futures) :
          search_futures[i].state = "done" /\ search_futures'[i].state = "collected"
    \/ \E i \in 1..Len(process_futures) :
          process_futures[i].state = "done" /\ process_futures'[i].state = "collected"

\* C20: a step in which a worker runs search_single_file or process_file
\* leaves the result lists, the counters and the progress calls as they
\* are; they change only in a step in which the orchestrator takes a
\* finished unit; found_files does not change during the action stage.
C20_OnlyOrchestratorCollects ==
    [][/\ WorkerStep =>
             UNCHANGED <<found_files, processed_files, failed_files,
                         search_processed, found_count, processed_count, progress>>
       /\ <<found_files, processed_files, failed_files, search_processed,
            found_count, processed_count, progress>>' #
          <<found_files, processed_files, failed_files, search_processed,
            found_count, processed_count, progress>> => CollectStep
       /\ pc = "action" => found_files' = found_files]_vars

\* an action worker has changed the disk and nothing has been collected
C20_Witness ==
    /\ pc = "action"
    /\ \E i \in 1..Len(process_futures) : process_futures[i].state = "done"
    /\ files # InitialFiles
    /\ processed_files = <<>>
    /\ failed_files = <<>>
    /\ processed_count = 0
    /\ Len(progress) = Len(filenames)

\* the units whose calls include a successful call of this kind
UnitsWith(kind) ==
    {i \in ActionDone : \E k \in CallsOf(i, kind) : process_futures[i].ops[k].ok}

\* the count the "actions taken" line gives for this action, as a set (empty
\* when the line does not name the action)
Reported(kind) ==
    IF HasMsg("actions_taken")
    THEN {MsgArg("actions_taken")[k][2] :
             k \in {j \in 1..Len(MsgArg("actions_taken")) :
                       MsgArg("actions_taken")[j][1] = kind}}
    ELSE {}

\* C22: the "actions taken" line of a run names only actions the run has
\* performed: in delete mode it names no copy and no move, and the count it
\* gives for copied, moved or deleted files is the number of found files on
\* which that action succeeded.
C22_ActionsTakenWerePerformed ==
    pc = "returned" =>
        /\ delete_mode => Reported("copied") = {} /\ Reported("moved") = {}
        /\ Reported("copied") \subseteq {Cardinality(UnitsWith("copy2"))}
        /\ Reported("moved") \subseteq {Cardinality(UnitsWith("move"))}
        /\ Reported("deleted") \subseteq {Cardinality(UnitsWith("remove"))}

\* the files on disk under a destination root
FilesUnder(root) ==
    {p \in files : Len(p) > Len(root) /\ SubSeq(p, 1, Len(root)) = root}

\* C24: without structure preservation, after a copy or move run in which
\* every action succeeded, the destination holds as many files as actions
\* succeeded: distinct found pairs went to distinct destination paths.
C24_FlatDestinationsDistinct ==
    (/\ pc = "returned"
     /\ ~match_folder_structure
     /\ ~delete_mode
     /\ process_futures # <<>>
     /\ failed_files = <<>>) =>
        /\ copy_path # <<>> => Cardinality(FilesUnder(copy_path)) = Len(processed_files)
        /\ move_path # <<>> => Cardinality(FilesUnder(move_path)) = Len(processed_files)

\* the user has accepted the confirmation for this action in the call of
\* start_processing that created the current searcher
Confirmed(call, action) ==
    /\ call.op = "start_processing"
    /\ call.result = "started"
    /\ call.asked = action
    /\ call.answer

\* C21: in the GUI a searcher for a delete run or a move run is created
\* only in a call of start_processing in which the user accepted the
\* confirmation for that action; a call in which the user declines leaves
\* the searcher fields, the disk and the stage as they are; and a file
\* leaves its place only in a run whose deletion or move was confirmed.
C21_ConfirmedBeforeRun ==
    [][/\ (pc = "gui" /\ pc' = "start") =>
             /\ delete_mode' => Confirmed(last_call', "delete")
             /\ (~delete_mode' /\ move_path' # <<>>) => Confirmed(last_call', "move")
       /\ (last_call' # last_call /\ last_call'.op = "start_processing"
           /\ last_call'.result = "declined") =>
             /\ last_call'.asked \in {"delete", "move"}
             /\ UNCHANGED <<searchervars, pc, files, dirs>>
       /\ files \ files' # {} =>
             Confirmed(last_call, IF delete_mode THEN "delete" ELSE "move")]_vars

\* a file has been moved in a run the user confirmed
C21_Witness ==
    /\ pc \in {"action", "returned"}
    /\ Confirmed(last_call, "move")
    /\ \E ik \in ActionOps : OpOf(ik).op = "move" /\ OpOf(ik).ok
    /\ InitialFiles \ files # {}

\* C23: every launch of the GUI ends with delete mode off, whatever the
\* form was when the last session was closed, and the config file never
\* holds an option other than the six settings (so never delete mode).
C23_DeleteModeNotPersisted ==
    [][/\ (pc = "closed" /\ pc' = "gui") => ~form'.delete_mode
       /\ DOMAIN config' \subseteq SettingsKeys]_vars

\* a session was closed with delete mode on and its settings were saved
C23_Witness ==
    /\ pc = "closed"
    /\ form.delete_mode
    /\ DOMAIN config = SettingsKeys
    /\ config[<<"Paths", "default_move_folder">>] = form.move_path

\* the keys of StringKeys with a segment that is missing on the way, that
\* end at a dict without 'text', or that end at a value that is no string
FallbackKeys ==
    {<<"m", ".", "q">>, <<"q", ".", "s">>, <<"w", ".", "s">>,
     <<"m", ".", ".", "s">>, <<"m", ".", "e">>, <<"m">>,
     <<"m", ".", "b">>, <<"m", ".", "n">>}

\* C25: get_string gives back the key when a segment of its path is
\* missing or the path ends at a dict without 'text' or at a non-string;
\* get and get_bool give the default, without raising, for an option that
\* is not in the configuration; and a call set(section, key, v) does not
\* raise and is followed by get(section, key) returning v.
C25_LookupsFallBack ==
    /\ (last_call.op = "get_string" /\ last_call.key \in FallbackKeys) =>
          last_call.value = last_call.key
    /\ (/\ last_call.op \in {"get", "get_bool"}
        /\ <<last_call.section, last_call.key>> \notin DOMAIN config) =>
          ~last_call.raised /\ last_call.value = last_call.default
    /\ last_call.op = "set" =>
          /\ ~last_call.raised
          /\ get(config, last_call.section, last_call.key, <<>>) =
                [raised |-> FALSE, value |-> last_call.value]

====
